---- MODULE Spec2Model ----
(***************************************************************************)
(* Model of the appstats request handlers (handler.go): the access gate    *)
(* and router AppstatsHandler, the trace detail view Details, the source   *)
(* view File and the static asset server Static.                           *)
(*                                                                         *)
(* Every request occupies a slot r.  A slot's fields are the locals of the *)
(* goroutine serving it.  What the external collaborators answer           *)
(* (memcache.Get + gob decoding, ioutil.ReadFile, user.Current,            *)
(* user.LoginURL) is an input of the step that calls them.                 *)
(***************************************************************************)
EXTENDS Integers, Sequences, FiniteSets, TLC

VARIABLES
  isDev,        \* appengine.IsDevAppServer()
  templates,    \* the package's template set (line 36)
  staticFiles,  \* the package's static asset table (line 37)
  pc,           \* per request: where its goroutine stands
  req,          \* per request: r *http.Request, with what user.Current answers for it
  err,          \* per request: the local err of Details / File
  full,         \* per request: the local full of Details
  f,            \* per request: the local f of File, the bytes read
  resp          \* per request: what was written to w http.ResponseWriter

vars == <<isDev, templates, staticFiles, pc, req, err, full, f, resp>>

(***************************************************************************)
(* Bounds                                                                  *)
(***************************************************************************)
MaxCalls == 3
MaxFileLen == 3
MaxDigits == 2
NumReqs == 2

Slots == 1..NumReqs

(***************************************************************************)
(* Small helpers                                                           *)
(***************************************************************************)
SeqsUpTo(S, n) == UNION {[1..k -> S] : k \in 0..n}

Perms(S) == {p \in [1..Cardinality(S) -> S] : \A i, j \in DOMAIN p : p[i] = p[j] => i = j}

RECURSIVE Sum(_)
Sum(s) == IF s = <<>> THEN 0 ELSE Head(s) + Sum(Tail(s))

(***************************************************************************)
(* Process-wide registries, as init() leaves them                          *)
(***************************************************************************)
InitTemplates == {"htmlBase", "htmlMain", "htmlDetails", "htmlFile"}

InitStaticFiles ==
  [n \in {"app_engine_logo_sm.gif", "appstats_css.css", "appstats_js.js", "gantt.js",
          "minus.gif", "pix.gif", "plus.gif"} |-> <<"bytes", n>>]

\* the extension of an asset name, for strings.HasSuffix(path, ".css" / ".js")
Suffix ==
  [n \in DOMAIN InitStaticFiles \cup {"missing.js"} |->
     IF n \in {"appstats_css.css"} THEN ".css"
     ELSE IF n \in {"appstats_js.js", "gantt.js", "missing.js"} THEN ".js"
     ELSE ".gif"]

\* URL paths are sequences of segments
detailsURL == <<"_ah", "stats", "details">>
fileURL == <<"_ah", "stats", "file">>
staticURL == <<"_ah", "stats", "static">>

HasPrefix(s, p) == Len(s) >= Len(p) /\ SubSeq(s, 1, Len(p)) = p

AppID == "app"

(***************************************************************************)
(* Trace records                                                           *)
(***************************************************************************)
\* call names as byte strings: "A", "a", "ab"
Names == {<<65>>, <<97>>, <<97, 98>>}
Costs == {1, 2}
Durations == {1, 2}

RPCStat == [name : Names, Cost : Costs, Duration : Durations]

SampleHeader == {<<"Host", "example">>}
NilHeader == {}

NilRecord == [present |-> FALSE, RPCStats |-> <<>>]
Record(stats) == [present |-> TRUE, RPCStats |-> stats]

EmptyFull == [Stats |-> NilRecord, Header |-> NilHeader]

\* r.Name()
Name(r) == r.name

(***************************************************************************)
(* Details: the aggregation loop, lines 118-134                            *)
(***************************************************************************)
ZeroCVal == [count |-> 0, cost |-> 0]

MapGet(m, k, zero) == IF k \in DOMAIN m THEN m[k] ELSE zero

MapPut(m, k, v) == [x \in DOMAIN m \cup {k} |-> IF x = k THEN v ELSE m[x]]

LoopInit == [byCount |-> <<>>, durationCount |-> <<>>, real |-> 0]

\* the loop body with `v.count = 1` for `v.count++`
LoopBodyCountOnce(st, r) ==
  LET rpc == Name(r)
      v == MapGet(st.byCount, rpc, ZeroCVal)
  IN [byCount |-> MapPut(st.byCount, rpc, [count |-> 1, cost |-> v.cost + r.Cost]),
      durationCount |-> MapPut(st.durationCount, rpc,
                               MapGet(st.durationCount, rpc, 0) + r.Duration),
      real |-> st.real + r.Duration]

\* the loop body with `v.cost = r.Cost` for `v.cost += r.Cost`
LoopBodyCostAssign(st, r) ==
  LET rpc == Name(r)
      v == MapGet(st.byCount, rpc, ZeroCVal)
  IN [byCount |-> MapPut(st.byCount, rpc, [count |-> v.count + 1, cost |-> r.Cost]),
      durationCount |-> MapPut(st.durationCount, rpc,
                               MapGet(st.durationCount, rpc, 0) + r.Duration),
      real |-> st.real + r.Duration]

\* the loop body with `durationCount[rpc] = r.Duration` for `+=`
LoopBodyDurationAssign(st, r) ==
  LET rpc == Name(r)
      v == MapGet(st.byCount, rpc, ZeroCVal)
  IN [byCount |-> MapPut(st.byCount, rpc, [count |-> v.count + 1, cost |-> v.cost + r.Cost]),
      durationCount |-> MapPut(st.durationCount, rpc, r.Duration),
      real |-> st.real + r.Duration]

\* the loop body with `_real += r.Duration` only for the first call of a name
LoopBodyRealPerName(st, r) ==
  LET rpc == Name(r)
      v == MapGet(st.byCount, rpc, ZeroCVal)
  IN [byCount |-> MapPut(st.byCount, rpc, [count |-> v.count + 1, cost |-> v.cost + r.Cost]),
      durationCount |-> MapPut(st.durationCount, rpc,
                               MapGet(st.durationCount, rpc, 0) + r.Duration),
      real |-> IF rpc \in DOMAIN st.byCount THEN st.real ELSE st.real + r.Duration]

\* lines 121-134, one iteration
LoopBody(st, r) ==
  LET rpc == Name(r)
      dc0 == IF rpc \notin DOMAIN st.byCount
             THEN MapPut(st.durationCount, rpc, 0)
             ELSE st.durationCount
      v == MapGet(st.byCount, rpc, ZeroCVal)
      v2 == [count |-> v.count + 1, cost |-> v.cost + r.Cost]
  IN [byCount |-> MapPut(st.byCount, rpc, v2),
      durationCount |-> MapPut(dc0, rpc, MapGet(dc0, rpc, 0) + r.Duration),
      real |-> st.real + r.Duration]

RECURSIVE Loop(_, _)
Loop(st, stats) == IF stats = <<>> THEN st ELSE Loop(LoopBody(st, Head(stats)), Tail(stats))

(***************************************************************************)
(* Details: building and sorting the rows, lines 136-145                   *)
(***************************************************************************)
StatByName(k, v, d) == [Name |-> k, Count |-> v.count, Cost |-> v.cost, Duration |-> d]

\* `for k, v := range byCount`: Go fixes no order for a map traversal
Traversals(byCount) == Perms(DOMAIN byCount)

Appended(st, order) ==
  [i \in DOMAIN order |-> StatByName(order[i], st.byCount[order[i]], st.durationCount[order[i]])]

\* byte-wise comparison of two strings
RECURSIVE LexLess(_, _)
LexLess(a, b) ==
  IF b = <<>> THEN FALSE
  ELSE IF a = <<>> THEN TRUE
  ELSE IF Head(a) # Head(b) THEN Head(a) < Head(b)
  ELSE LexLess(Tail(a), Tail(b))

\* StatsByName.Less
Less(x, y) ==
  \/ x.Cost > y.Cost
  \/ x.Cost = y.Cost /\ x.Count > y.Count
  \/ x.Cost = y.Cost /\ x.Count = y.Count /\ LexLess(x.Name, y.Name)

SeqRange(s) == {s[i] : i \in DOMAIN s}

\* the sequences sort.Sort may leave behind: any arrangement of the same rows in
\* which no later row is Less than an earlier one (sort.Sort is not stable)
NoSort(rows) == {rows}

SortSort(rows) ==
  {s \in Perms(SeqRange(rows)) : \A i, j \in DOMAIN s : i < j => ~Less(s[j], s[i])}

(***************************************************************************)
(* View models and responses                                               *)
(***************************************************************************)
Env == [APPLICATION_ID |-> AppID]

\* the struct literal of lines 93-103: everything but Env is the zero value
DetailsZero ==
  [Env |-> Env, Record |-> NilRecord, Header |-> NilHeader,
   AllStatsByCount |-> <<>>, Real |-> 0]

NoView == [Env |-> [APPLICATION_ID |-> ""]]

\* a ResponseWriter nothing was written to
NoResp ==
  [status |-> 0, body |-> <<>>, tmpl |-> "", renders |-> 0, view |-> NoView,
   header |-> {}, ran |-> "", aggregated |-> FALSE]

\* http.Error
HttpError(w, msg, code) == [w EXCEPT !.status = code, !.body = <<msg>>]

\* serveError
serveError(w, e) == HttpError(w, e, 500)

\* http.Redirect
Redirect(w, url, code) == [w EXCEPT !.status = code, !.body = <<url>>]

\* templates.ExecuteTemplate
ExecuteTemplate(w, name, v) ==
  [w EXCEPT !.status = IF w.status = 0 THEN 200 ELSE w.status,
            !.tmpl = name, !.renders = w.renders + 1, !.view = v]

(***************************************************************************)
(* File: strconv.Atoi, strings.Split and the line map, lines 156-170       *)
(***************************************************************************)
Digits == <<"0", "1", "2", "3", "4", "5", "6", "7", "8", "9">>

IsDigit(c) == \E i \in DOMAIN Digits : Digits[i] = c

DigitVal(c) == (CHOOSE i \in DOMAIN Digits : Digits[i] = c) - 1

RECURSIVE ParseDigits(_, _)
ParseDigits(s, n) == IF s = <<>> THEN n ELSE ParseDigits(Tail(s), n * 10 + DigitVal(Head(s)))

\* strconv.Atoi with its error dropped (`lineno, _ := strconv.Atoi(n)`): 0 on a
\* syntax error.  The strings of the model are too short for a range error.
Atoi(s) ==
  IF s = <<>> THEN 0
  ELSE LET signed == Head(s) \in {"-", "+"}
           body == IF signed THEN Tail(s) ELSE s
       IN IF body = <<>> \/ \E i \in DOMAIN body : ~IsDigit(body[i]) THEN 0
          ELSE IF Head(s) = "-" THEN 0 - ParseDigits(body, 0)
          ELSE ParseDigits(body, 0)

\* strings.Split(s, "\n"): cur is the piece being read, acc the pieces before it
RECURSIVE SplitFrom(_, _, _)
SplitFrom(s, cur, acc) ==
  IF s = <<>> THEN Append(acc, cur)
  ELSE IF Head(s) = "\n" THEN SplitFrom(Tail(s), <<>>, Append(acc, cur))
  ELSE SplitFrom(Tail(s), Append(cur, Head(s)), acc)

Split(s) == SplitFrom(s, <<>>, <<>>)

\* the key under which `for k, v := range lines` stores line k (k counts from 0)
ZeroBasedKey(k) == k

LineKey(k) == k + 1

\* fp := make(map[int]string); fp[k+1] = v
LineMap(lines) ==
  [key \in {LineKey(i - 1) : i \in DOMAIN lines} |->
     lines[CHOOSE i \in DOMAIN lines : LineKey(i - 1) = key]]

FileView(fname, lineno, fp) == [Env |-> Env, Filename |-> fname, Lineno |-> lineno, Fp |-> fp]

(***************************************************************************)
(* Inputs                                                                  *)
(***************************************************************************)
Users == {"none", "user", "admin"}

Rids == {"xyz"}

Fnames == {"handler.go"}

NChars == {"1", "7", "-", "x"}

FileChars == {"x", "\n"}

StaticNames == {"appstats_css.css", "gantt.js", "pix.gif", "missing.js"}

Request(u, p, rid, fname, n) == [user |-> u, path |-> p, rid |-> rid, f |-> fname, n |-> n]

NoRequest == Request("none", <<>>, "", "", <<>>)

RequestsOf(users, nstrings, names) ==
  {Request(u, detailsURL, rid, "", <<>>) : u \in users, rid \in Rids}
  \cup {Request(u, fileURL, "", fname, n) : u \in users, fname \in Fnames, n \in nstrings}
  \cup {Request(u, staticURL \o <<name>>, "", "", <<>>) : u \in users, name \in names}
  \cup {Request(u, <<"favicon.ico">>, "", "", <<>>) : u \in users}

\* what memcache.Get and the gob decoder can answer
Item(kind, stats) ==
  [kind |-> kind,
   full |-> IF kind = "ok" THEN [Stats |-> Record(stats), Header |-> SampleHeader] ELSE EmptyFull]

ItemsOf(statsSet) ==
  {Item(k, <<>>) : k \in {"miss", "error", "corrupt"}} \cup {Item("ok", st) : st \in statsSet}

\* what ioutil.ReadFile can answer
ReadsOf(contents) ==
  {[ok |-> FALSE, data |-> <<>>]} \cup {[ok |-> TRUE, data |-> c] : c \in contents}

Times == {"t0", "t1"}

(***************************************************************************)
(* State                                                                   *)
(***************************************************************************)
Init ==
  /\ isDev \in BOOLEAN
  /\ templates = InitTemplates
  /\ staticFiles = InitStaticFiles
  /\ pc = [r \in Slots |-> "idle"]
  /\ req = [r \in Slots |-> NoRequest]
  /\ err = [r \in Slots |-> "nil"]
  /\ full = [r \in Slots |-> EmptyFull]
  /\ f = [r \in Slots |-> <<>>]
  /\ resp = [r \in Slots |-> NoResp]

Registries == <<isDev, templates, staticFiles>>

\* the host hands a request to a goroutine
Receive(r, requests) ==
  /\ pc[r] = "idle"
  /\ \E q \in requests : req' = [req EXCEPT ![r] = q]
  /\ pc' = [pc EXCEPT ![r] = "AppstatsHandler"]
  /\ UNCHANGED <<Registries, err, full, f, resp>>

\* the response has been sent and the goroutine ends: its locals are gone
Close(r) ==
  /\ pc[r] = "done"
  /\ pc' = [pc EXCEPT ![r] = "idle"]
  /\ req' = [req EXCEPT ![r] = NoRequest]
  /\ err' = [err EXCEPT ![r] = "nil"]
  /\ full' = [full EXCEPT ![r] = EmptyFull]
  /\ f' = [f EXCEPT ![r] = <<>>]
  /\ resp' = [resp EXCEPT ![r] = NoResp]
  /\ UNCHANGED Registries

\* the handler returns, having written w
Finish(r, w) ==
  /\ resp' = [resp EXCEPT ![r] = w]
  /\ pc' = [pc EXCEPT ![r] = "done"]

\* a call of one of Details, File, Static
Call(r, handler) ==
  /\ pc' = [pc EXCEPT ![r] = handler]
  /\ resp' = [resp EXCEPT ![r].ran = handler]

\* lines 77-85
Route(r) ==
  LET path == req[r].path
  IN IF detailsURL = path THEN Call(r, "Details")
     ELSE IF fileURL = path THEN Call(r, "File")
     ELSE IF HasPrefix(path, staticURL) THEN Call(r, "Static")
     ELSE Finish(r, HttpError(resp[r], "404 page not found", 404))

\* the gate without its Admin check
GateNoAdmin(r) ==
  IF isDev THEN Route(r)
  ELSE IF req[r].user = "none"
  THEN \E loginOk \in BOOLEAN :
         IF loginOk
         THEN Finish(r, Redirect(resp[r], "loginURL", 307))
         ELSE Finish(r, serveError(resp[r], "login error"))
  ELSE Route(r)

\* lines 63-86: user.Current answers nil ("none"), a plain user or an admin
Gate(r) ==
  IF isDev THEN Route(r)
  ELSE IF req[r].user = "none"
  THEN \E loginOk \in BOOLEAN :
         IF loginOk
         THEN Finish(r, Redirect(resp[r], "loginURL", 307))
         ELSE Finish(r, serveError(resp[r], "login error"))
  ELSE IF req[r].user # "admin"
  THEN Finish(r, HttpError(resp[r], "Forbidden", 403))
  ELSE Route(r)

AppstatsHandler(r) ==
  /\ pc[r] = "AppstatsHandler"
  /\ Gate(r)
  /\ UNCHANGED <<Registries, req, err, full, f>>

\* a Details that reports a failed lookup or decoding as an error response
FetchFailedHard(r, e) ==
  /\ err' = [err EXCEPT ![r] = e]
  /\ Finish(r, serveError(resp[r], e))
  /\ UNCHANGED full

\* lines 106-109 and 113-116: `if err != nil { render v; return }`
FetchFailed(r, e) ==
  /\ err' = [err EXCEPT ![r] = e]
  /\ Finish(r, ExecuteTemplate(resp[r], "details", DetailsZero))
  /\ UNCHANGED full

\* Details, lines 89-116: the lookup and the decoding
DetailsFetch(r, items) ==
  /\ pc[r] = "Details"
  /\ \E item \in items :
       IF item.kind \in {"miss", "error"}
       THEN FetchFailed(r, item.kind)
       ELSE IF item.kind = "corrupt"
       THEN FetchFailed(r, item.kind)
       ELSE /\ full' = [full EXCEPT ![r] = item.full]
            /\ pc' = [pc EXCEPT ![r] = "aggregate"]
            /\ UNCHANGED <<resp, err>>
  /\ UNCHANGED <<Registries, req, f>>

\* a `full` that is one variable of the package, written by the latest decoding
FullOfLatest(r) ==
  full[CHOOSE q \in Slots : pc[q] = "aggregate" /\ \A p \in Slots : pc[p] = "aggregate" => p <= q]

\* line 111: `full := stats_full{}` is a local of the call
Full(r) == full[r]

\* Details, lines 118-152: aggregation, sorting and rendering
DetailsAggregate(r) ==
  /\ pc[r] = "aggregate"
  /\ LET st == Loop(LoopInit, Full(r).Stats.RPCStats)
     IN \E order \in Traversals(st.byCount) :
          \E sorted \in SortSort(Appended(st, order)) :
            Finish(r, ExecuteTemplate([resp[r] EXCEPT !.aggregated = TRUE], "details",
                        [Env |-> Env, Record |-> Full(r).Stats, Header |-> Full(r).Header,
                         AllStatsByCount |-> sorted, Real |-> st.real]))
  /\ UNCHANGED <<Registries, req, err, full, f>>

\* a File that drops the read error and renders what it has
ReadFileSoft(r, rd) ==
  /\ err' = [err EXCEPT ![r] = IF rd.ok THEN "nil" ELSE "read error"]
  /\ f' = [f EXCEPT ![r] = rd.data]
  /\ pc' = [pc EXCEPT ![r] = "render"]
  /\ UNCHANGED resp

\* File, lines 161-165
ReadFile(r, rd) ==
  IF ~rd.ok
  THEN /\ err' = [err EXCEPT ![r] = "read error"]
       /\ Finish(r, serveError(resp[r], "read error"))
       /\ UNCHANGED f
  ELSE /\ f' = [f EXCEPT ![r] = rd.data]
       /\ pc' = [pc EXCEPT ![r] = "render"]
       /\ UNCHANGED <<resp, err>>

\* File, lines 156-165
FileRead(r, reads) ==
  /\ pc[r] = "File"
  /\ \E rd \in reads : ReadFile(r, rd)
  /\ UNCHANGED <<Registries, req, full>>

\* File, lines 167-186
FileRender(r) ==
  /\ pc[r] = "render"
  /\ Finish(r, ExecuteTemplate(resp[r], "file",
                 FileView(req[r].f, Atoi(req[r].n), LineMap(Split(f[r])))))
  /\ UNCHANGED <<Registries, req, err, full, f>>

\* Static, lines 189-206
Static(r) ==
  /\ pc[r] = "Static"
  /\ LET fname == req[r].path[Len(req[r].path)]
     IN IF fname \in DOMAIN staticFiles
        THEN \E now \in Times :
               LET ctype == IF Suffix[fname] = ".css" THEN {<<"Content-type", "text/css">>}
                            ELSE IF Suffix[fname] = ".js"
                            THEN {<<"Content-type", "text/javascript">>}
                            ELSE {}
                   h == ctype \cup {<<"Cache-Control", "public, max-age=expiry">>,
                                     <<"Expires", <<now, "+1h">>>>}
               IN Finish(r, [resp[r] EXCEPT !.header = h, !.status = 200,
                                             !.body = staticFiles[fname]])
        ELSE Finish(r, resp[r])
  /\ UNCHANGED <<Registries, req, err, full, f>>

(***************************************************************************)
(* Specifications                                                          *)
(***************************************************************************)
AllStats == SeqsUpTo(RPCStat, MaxCalls)

AllRequests == RequestsOf(Users, SeqsUpTo(NChars, MaxDigits), StaticNames)

AllItems == ItemsOf(AllStats)

AllReads == ReadsOf(SeqsUpTo(FileChars, MaxFileLen))

\* one request at a time, over the full input sets
Next ==
  \/ Receive(1, AllRequests)
  \/ AppstatsHandler(1)
  \/ DetailsFetch(1, AllItems)
  \/ DetailsAggregate(1)
  \/ FileRead(1, AllReads)
  \/ FileRender(1)
  \/ Static(1)
  \/ Close(1)

Spec == Init /\ [][Next]_vars

\* concurrent requests, over small input sets
ConcStats == SeqsUpTo([name : {<<65>>, <<97>>}, Cost : {1}, Duration : {1}], 1)

ConcRequests == RequestsOf({"admin"}, {<<"7">>}, {"gantt.js"})

ConcItems == ItemsOf(ConcStats)

ConcReads == ReadsOf({<<"x">>, <<"x", "\n">>})

NextConc ==
  \E r \in Slots :
    \/ Receive(r, ConcRequests)
    \/ AppstatsHandler(r)
    \/ DetailsFetch(r, ConcItems)
    \/ DetailsAggregate(r)
    \/ FileRead(r, ConcReads)
    \/ FileRender(r)
    \/ Static(r)
    \/ Close(r)

SpecConc == Init /\ [][NextConc]_vars

(***************************************************************************)
(* Properties                                                              *)
(***************************************************************************)
\* the request of slot r went through the whole of Details with a decoded record
Aggregated(r) == pc[r] = "done" /\ resp[r].ran = "Details" /\ resp[r].aggregated

Calls(r) == full[r].Stats.RPCStats

Rows(r) == resp[r].view.AllStatsByCount

CallsNamed(r, n) == SelectSeq(Calls(r), LAMBDA e : e.name = n)

Field(s, fld) == [i \in DOMAIN s |-> s[i][fld]]

\* C1: the Counts of the rows of a rendered record add up to its number of calls
CountConservation ==
  \A r \in Slots : Aggregated(r) => Sum(Field(Rows(r), "Count")) = Len(Calls(r))

CountConservationWitness ==
  \E r \in Slots : Aggregated(r) /\ Len(Calls(r)) = 3 /\ Len(Rows(r)) = 2

\* x comes before y: higher Cost, then higher Count, then lower Name
Ranks(x, y) ==
  \/ x.Cost > y.Cost
  \/ x.Cost = y.Cost /\ x.Count > y.Count
  \/ x.Cost = y.Cost /\ x.Count = y.Count /\ LexLess(x.Name, y.Name)

\* C2: the rows are ranked by Cost descending, then Count descending, then Name
\* ascending; the ranking is strict, so one record has one possible row sequence
DeterministicOrdering ==
  \A r \in Slots :
    Aggregated(r) => \A i, j \in DOMAIN Rows(r) : i < j => Ranks(Rows(r)[i], Rows(r)[j])

DeterministicOrderingWitness ==
  \E r \in Slots :
    /\ Aggregated(r)
    /\ Len(Rows(r)) = 3
    /\ Rows(r)[1].Cost = Rows(r)[2].Cost
    /\ Rows(r)[1].Count = Rows(r)[2].Count
    /\ Rows(r)[2].Cost > Rows(r)[3].Cost

\* C3: a failed lookup or decoding renders the details view once, with only Env
\* set, and neither an error response nor the aggregation
GracefulMiss ==
  \A r \in Slots :
    (pc[r] = "done" /\ resp[r].ran = "Details" /\ err[r] # "nil") =>
      /\ resp[r].renders = 1
      /\ resp[r].tmpl = "details"
      /\ resp[r].status = 200
      /\ resp[r].body = <<>>
      /\ ~resp[r].aggregated
      /\ resp[r].view.Env = [APPLICATION_ID |-> AppID]
      /\ ~resp[r].view.Record.present
      /\ resp[r].view.Header = {}
      /\ resp[r].view.AllStatsByCount = <<>>
      /\ resp[r].view.Real = 0

GracefulMissWitness ==
  \E r \in Slots :
    pc[r] = "done" /\ resp[r].ran = "Details" /\ err[r] = "corrupt" /\ resp[r].renders = 1

Core == {"Details", "File", "Static"}

\* C4 as stated: no core operation runs for a caller who is not an authenticated
\* administrator
AccessGateAlways ==
  \A r \in Slots : resp[r].ran \in Core => req[r].user = "admin"

\* C4 amended: off the development server no core operation runs for a caller who
\* is not an authenticated administrator; an unauthenticated caller ends with the
\* login redirect or an error, another non-admin with Forbidden
AccessGate ==
  ~isDev =>
    \A r \in Slots :
      /\ resp[r].ran \in Core => req[r].user = "admin"
      /\ (pc[r] = "done" /\ req[r].user = "none") =>
           resp[r].ran = "" /\ resp[r].status \in {307, 500} /\ resp[r].renders = 0
      /\ (pc[r] = "done" /\ req[r].user = "user") =>
           resp[r].ran = "" /\ resp[r].status = 403 /\ resp[r].renders = 0

AccessGateWitness ==
  \E r \in Slots :
    ~isDev /\ pc[r] = "done" /\ req[r].user = "user" /\ req[r].path = detailsURL
    /\ resp[r].status = 403

\* C5: one row per distinct call name, holding the number, the cost and the
\* duration of exactly the calls of that name
PerNameGrouping ==
  \A r \in Slots :
    Aggregated(r) =>
      /\ {Rows(r)[i].Name : i \in DOMAIN Rows(r)} = {Calls(r)[i].name : i \in DOMAIN Calls(r)}
      /\ \A i, j \in DOMAIN Rows(r) : Rows(r)[i].Name = Rows(r)[j].Name => i = j
      /\ \A i \in DOMAIN Rows(r) :
           LET mine == CallsNamed(r, Rows(r)[i].Name)
           IN /\ Rows(r)[i].Count = Len(mine)
              /\ Rows(r)[i].Cost = Sum(Field(mine, "Cost"))
              /\ Rows(r)[i].Duration = Sum(Field(mine, "Duration"))

\* names that differ in case only ("A", "a") get a row each
PerNameGroupingWitness ==
  \E r \in Slots :
    /\ Aggregated(r)
    /\ Len(Calls(r)) = 3
    /\ {Rows(r)[i].Name : i \in DOMAIN Rows(r)} = {<<65>>, <<97>>}
    /\ \E i \in DOMAIN Rows(r) : Rows(r)[i].Count = 2 /\ Rows(r)[i].Duration = 3

\* C6: the Costs of the rows add up to the costs of the calls
CostConservation ==
  \A r \in Slots :
    Aggregated(r) => Sum(Field(Rows(r), "Cost")) = Sum(Field(Calls(r), "Cost"))

CostConservationWitness ==
  \E r \in Slots :
    /\ Aggregated(r)
    /\ Len(Rows(r)) = 2
    /\ Sum(Field(Calls(r), "Cost")) = 5

\* C7: Real is the sum of the durations of all calls, whatever their names, and so
\* the sum of the Durations of the rows
ApproxTotalDuration ==
  \A r \in Slots :
    Aggregated(r) =>
      /\ resp[r].view.Real = Sum(Field(Calls(r), "Duration"))
      /\ resp[r].view.Real = Sum(Field(Rows(r), "Duration"))

ApproxTotalDurationWitness ==
  \E r \in Slots :
    /\ Aggregated(r)
    /\ Len(Calls(r)) = 3
    /\ Len(Rows(r)) = 2
    /\ resp[r].view.Real = 5

\* C8: a failed read ends with an error response and no rendered view
SourceUnavailable ==
  \A r \in Slots :
    (pc[r] # "idle" /\ resp[r].ran = "File" /\ err[r] # "nil") =>
      /\ pc[r] = "done"
      /\ resp[r].status = 500
      /\ resp[r].body # <<>>
      /\ resp[r].renders = 0
      /\ resp[r].tmpl = ""
      /\ resp[r].view = NoView

SourceUnavailableWitness ==
  \E r \in Slots :
    pc[r] = "done" /\ resp[r].ran = "File" /\ err[r] = "read error" /\ resp[r].status = 500

\* the number of lines of a file: one more than its newlines
NumLines(s) == Cardinality({i \in DOMAIN s : s[i] = "\n"}) + 1

\* the lines 1..n of a line map, joined by newlines
RECURSIVE Join(_, _)
Join(fp, n) == IF n = 1 THEN fp[1] ELSE Join(fp, n - 1) \o <<"\n">> \o fp[n]

\* strconv.Itoa
RECURSIVE FormatDigits(_)
FormatDigits(k) ==
  IF k < 10 THEN <<Digits[k + 1]>> ELSE Append(FormatDigits(k \div 10), Digits[(k % 10) + 1])

Itoa(k) == IF k < 0 THEN <<"-">> \o FormatDigits(0 - k) ELSE FormatDigits(k)

\* 10^n
RECURSIVE Pow10(_)
Pow10(n) == IF n = 0 THEN 1 ELSE 10 * Pow10(n - 1)

\* the request of slot r went through the whole of File
FileDone(r) == pc[r] = "done" /\ resp[r].ran = "File" /\ err[r] = "nil"

\* C9: the line map of a file of L lines has the keys 1..L, key i holding line i,
\* and the highlight line is the requested number, whatever L is
SourceMapping ==
  \A r \in Slots :
    FileDone(r) =>
      LET v == resp[r].view
          L == NumLines(f[r])
      IN /\ DOMAIN v.Fp = 1..L
         /\ \A i \in 1..L : \A c \in DOMAIN v.Fp[i] : v.Fp[i][c] # "\n"
         /\ Join(v.Fp, L) = f[r]
         /\ v.Filename = req[r].f
         /\ \A k \in (0 - Pow10(MaxDigits))..Pow10(MaxDigits) :
              req[r].n = Itoa(k) => v.Lineno = k

SourceMappingWitness ==
  \E r \in Slots :
    /\ FileDone(r)
    /\ f[r] = <<"x", "\n", "x">>
    /\ req[r].n = Itoa(17)
    /\ resp[r].view.Lineno = 17
    /\ resp[r].view.Fp[2] = <<"x">>

\* what a finished request has to show for its own parameters and reads
OwnResponse(r) ==
  LET w == resp[r]
  IN CASE w.ran = "Details" /\ w.aggregated ->
            /\ w.view.Record = full[r].Stats
            /\ w.view.Header = full[r].Header
            /\ {w.view.AllStatsByCount[i].Name : i \in DOMAIN w.view.AllStatsByCount}
                 = {Calls(r)[i].name : i \in DOMAIN Calls(r)}
            /\ w.view.Real = Sum(Field(Calls(r), "Duration"))
       [] w.ran = "Details" /\ ~w.aggregated -> w.view = DetailsZero
       [] w.ran = "File" /\ err[r] = "nil" ->
            w.view = FileView(req[r].f, Atoi(req[r].n), LineMap(Split(f[r])))
       [] w.ran = "File" /\ err[r] # "nil" -> w.view = NoView
       [] w.ran = "Static" ->
            LET fname == req[r].path[Len(req[r].path)]
            IN IF fname \in DOMAIN InitStaticFiles
               THEN w.body = InitStaticFiles[fname]
               ELSE w.body = <<>>
       [] OTHER -> w.view = NoView

\* C10: the registries stay as init() left them, and a finished request shows the
\* view of its own parameters and reads, whatever the other requests did meanwhile
RequestIsolation ==
  /\ templates = InitTemplates
  /\ staticFiles = InitStaticFiles
  /\ \A r \in Slots : pc[r] = "done" => OwnResponse(r)

\* two requests in Details at once, with different records; one has finished
RequestIsolationWitness ==
  \E r, q \in Slots :
    /\ r < q
    /\ Aggregated(r)
    /\ pc[q] = "aggregate"
    /\ full[r] # full[q]
    /\ Len(Calls(r)) = 1 /\ Len(Calls(q)) = 1

====
